---- MODULE Spec2Model ----
(***************************************************************************)
(* Model of plot.py: the day-block parser and the statistics pipeline.     *)
(*                                                                         *)
(* A timestamp (datetime) is a number of minutes: day * 1440 + minute of   *)
(* the day, the day being the ordinal of the calendar date.  A timedelta   *)
(* is a (signed) number of minutes.  A float quotient a / b is kept as the *)
(* exact fraction [num |-> a, den |-> b].                                  *)
(***************************************************************************)
EXTENDS Integers, Sequences, FiniteSets

(***************************************************************************)
(* Bounds of the explored inputs.                                          *)
(***************************************************************************)
MaxDate == 2        \* dates of the freely enumerated files: 1..MaxDate
MaxEvents == 2      \* total number of HHMM tokens of a freely enumerated file
MaxBlocks == 3      \* day-blocks of a file of commented blocks
MaxDays == 9        \* day-blocks of a file generated from per-day counts
MaxShortDays == 4   \* day-blocks of such a file whose counts are all free
MaxCount == 2       \* tokens per day-block of such a file

(***************************************************************************)
(* Program constants.                                                      *)
(***************************************************************************)
AVERAGE_PERIOD == 7
MinutesPerDay == 24 * 60

(***************************************************************************)
(* Generic sequence helpers (Python list built-ins).                       *)
(***************************************************************************)
Reverse(s) == [k \in 1..Len(s) |-> s[Len(s) + 1 - k]]

RECURSIVE SumSeq(_)
SumSeq(s) == IF s = <<>> THEN 0 ELSE Head(s) + SumSeq(Tail(s))

RECURSIVE MinSeq(_)
MinSeq(s) == IF Len(s) = 1 THEN s[1]
             ELSE LET m == MinSeq(Tail(s)) IN IF s[1] <= m THEN s[1] ELSE m

RECURSIVE MaxSeq(_)
MaxSeq(s) == IF Len(s) = 1 THEN s[1]
             ELSE LET m == MaxSeq(Tail(s)) IN IF s[1] >= m THEN s[1] ELSE m

\* list.index(v): 0-based position of the first element equal to v
IndexOf(s, v) == (CHOOSE k \in 1..Len(s) :
                     s[k] = v /\ \A j \in 1..(k - 1) : s[j] # v) - 1

\* list.pop() leaves the list without its last element
PopLast(s) == SubSeq(s, 1, Len(s) - 1)

RECURSIVE Insert(_, _)
Insert(x, s) == IF s = <<>> THEN <<x>>
                ELSE IF x <= Head(s) THEN <<x>> \o s
                ELSE <<Head(s)>> \o Insert(x, Tail(s))

RECURSIVE Sorted(_)
Sorted(s) == IF s = <<>> THEN <<>> ELSE Insert(Head(s), Sorted(Tail(s)))

Min2(a, b) == IF a <= b THEN a ELSE b
Max2(a, b) == IF a >= b THEN a ELSE b

(***************************************************************************)
(* The data file.  A day-block is a date line, an optional comment line    *)
(* and a line of HHMM tokens:                                              *)
(*   date    : the day ordinal of the YYMMDD date line                     *)
(*   comment : the text after "# " of the comment line, or NoLine          *)
(*   hours   : the tokens of hours.split(' '), each the number HHMM        *)
(***************************************************************************)
NoLine == "<none>"

Block(d, c, h) == [date |-> d, comment |-> c, hours |-> h]

\* 4-digit tokens: 01:00, 01:01, 06:30, 07:00, 08:00, 09:00 and 0760, which
\* strptime rejects
Toks == {100, 101, 630, 700, 800, 900, 760}

TokLists(k) == [1..k -> Toks]

\* files of uncommented blocks holding at most n tokens in all
RECURSIVE FreeFiles(_)
FreeFiles(n) ==
    {<<>>} \cup
    UNION {{<<Block(d, NoLine, h)>> \o f :
                d \in 1..MaxDate, h \in TokLists(k), f \in FreeFiles(n - k)} :
           k \in 1..n}

\* files of at most n blocks of one event each, commented or not
RECURSIVE CommentFiles(_)
CommentFiles(n) ==
    IF n = 0 THEN {<<>>}
    ELSE LET shorter == CommentFiles(n - 1) IN
         shorter \cup
         {<<Block(d, c, <<700>>)>> \o f :
              d \in 1..MaxBlocks, c \in {NoLine, "a", "b"},
              f \in {g \in shorter : Len(g) = n - 1}}

\* the file of the documented format that holds c[d] events on day d:
\* blocks newest first, the tokens of a block oldest first
FileOfCounts(c) ==
    [k \in 1..Len(c) |->
        LET d == Len(c) + 1 - k IN
        Block(d, NoLine, [j \in 1..c[d] |-> 100 * j])]

\* per-day counts: every short sequence, and the long ones that hold one count
\* up to some day and another count after it
ShortCounts == UNION {[1..n -> 1..MaxCount] : n \in 0..MaxShortDays}
StepCounts == {[k \in 1..n |-> IF k <= p THEN x ELSE y] :
                  n \in 0..MaxDays, p \in 0..MaxDays, x \in 1..MaxCount, y \in 1..MaxCount}
CountSeqs == ShortCounts \cup StepCounts

ExampleCounts == {<<9, 1, 3, 5, 3, 1>>, <<4, 2, 1>>}

CountFiles == {FileOfCounts(c) : c \in CountSeqs \cup ExampleCounts}

InputFiles == FreeFiles(MaxEvents) \cup CommentFiles(MaxBlocks) \cup CountFiles

(***************************************************************************)
(* datetime helpers.                                                       *)
(***************************************************************************)
\* strptime(date + hour, '%y%m%d%H%M') accepts a 4-digit token iff it is a
\* time of the day
TokenValid(t) == t \div 100 <= 23 /\ t % 100 <= 59

\* the datetime strptime returns
Strptime(d, t) == d * MinutesPerDay + (t \div 100) * 60 + (t % 100)

\* datetime.date() and datetime.time(), the latter in minutes since midnight
DateOf(e) == e \div MinutesPerDay
TimeOf(e) == e % MinutesPerDay

\* date2num(event) % 1: the fraction of the day, in 1/1440ths
normalized_event_time(e) == [num |-> TimeOf(e), den |-> MinutesPerDay]

\* the comment the parser stores for a block
CommentOf(b) == IF b.comment = NoLine THEN "" ELSE b.comment

\* mutant: the tokens of a block are not reversed
HoursNotReversed(h) == h

\* line 75
HoursReversed(h) == Reverse(h)

\* the length of the longest prefix of valid tokens
RECURSIVE ValidPrefix(_)
ValidPrefix(h) == IF h = <<>> \/ ~TokenValid(Head(h)) THEN 0
                  ELSE 1 + ValidPrefix(Tail(h))

\* mutant: the comments are left in file order
CommentsNotReversed(cm) == cm

\* lines 87-88
EventsReversed(ev) == Reverse(ev)
CommentsReversed(cm) == Reverse(cm)

\* line 91: deltas = [y - x for x, y in zip(events, events[1:])]
Deltas(ev) == [k \in 1..(IF Len(ev) = 0 THEN 0 ELSE Len(ev) - 1) |-> ev[k + 1] - ev[k]]

\* events[i-1] with i counted from 0: Python's index -1 is the last element
PreviousIndex(i) == i - 1
PythonItem(s, i0) == IF i0 < 0 THEN s[Len(s) + i0 + 1] ELSE s[i0 + 1]

\* mutant: 08:00 itself counts as inside the window
LongNightInclusive(e, prev) == /\ e - prev >= 6 * 60
                               /\ TimeOf(e) <= 8 * 60
                               /\ TimeOf(e) > 6 * 60 + 30

\* line 111
LongNight(e, prev) == /\ e - prev >= 6 * 60
                      /\ TimeOf(e) < 8 * 60
                      /\ TimeOf(e) > 6 * 60 + 30

\* Counter(dates): the distinct dates in first-seen order and their counts
RECURSIVE CounterKeys(_)
CounterKeys(dates) ==
    IF dates = <<>> THEN <<>>
    ELSE LET init == CounterKeys(PopLast(dates))
             d == dates[Len(dates)]
         IN IF \E k \in 1..Len(init) : init[k] = d THEN init ELSE Append(init, d)

\* mutant: the first event is not counted
CountOfSkippingFirst(d, dates) == Cardinality({k \in 2..Len(dates) : dates[k] = d})

CountOf(d, dates) == Cardinality({k \in 1..Len(dates) : dates[k] = d})

CounterValues(dates) ==
    LET keys == CounterKeys(dates) IN [k \in 1..Len(keys) |-> CountOf(keys[k], dates)]

(***************************************************************************)
(* Statistics helpers.                                                     *)
(***************************************************************************)
\* line 134
Average(sorted) == [num |-> SumSeq(sorted), den |-> Len(sorted)]

\* mutant: the lower of the two middle values of an even-length list
MedianIndexLower(n) == (n - 1) \div 2

\* line 135: events_per_day_sorted[int(len(events_per_day_sorted)/2)]
MedianIndex(n) == n \div 2
Median(sorted) == PythonItem(sorted, MedianIndex(Len(sorted)))

\* line 136
Midrange(sorted) == [num |-> PythonItem(sorted, 0) + PythonItem(sorted, -1), den |-> 2]

\* line 137: standard_dev is the square root of this fraction; with
\* average = S / n, sum((c - S/n)^2) / n = sum((n*c - S)^2) / n^3
Variance(counts, avg) ==
    LET n == avg.den
        S == avg.num
    IN [num |-> SumSeq([k \in 1..Len(counts) |-> (n * counts[k] - S) * (n * counts[k] - S)]),
        den |-> n * n * Len(counts)]

\* lines 141 and 162: n / (median * 2), n an integer or a fraction
NormalizedCount(n, med) == [num |-> n, den |-> med * 2]
NormalizedFraction(q, med) == [num |-> q.num, den |-> q.den * (med * 2)]

\* lines 153-155: total of events_per_day[j] for j in range(lo, hi), 0-based
RECURSIVE RangeTotal(_, _, _)
RangeTotal(counts, lo, hi) ==
    IF lo >= hi THEN 0 ELSE PythonItem(counts, lo) + RangeTotal(counts, lo + 1, hi)

\* mutant: always divide by the period
WindowDivisorFixed(index) == AVERAGE_PERIOD

\* lines 154 and 158 for one index (0-based)
WindowStart(index) == Max2(0, index + 1 - AVERAGE_PERIOD)
WindowDivisor(index) == Min2(AVERAGE_PERIOD, index + 1)
AverageAt(counts, index) ==
    [num |-> RangeTotal(counts, WindowStart(index), index + 1),
     den |-> WindowDivisor(index)]

\* lines 146-158
AverageOverPeriod(counts) == [k \in 1..Len(counts) |-> AverageAt(counts, k - 1)]

\* str(timedelta)[:4] as a list of characters: "H:MM", "HH:M", "D da", "-D d"
Digit(d) == <<"0", "1", "2", "3", "4", "5", "6", "7", "8", "9">>[d + 1]
Take4(s) == SubSeq(s, 1, Min2(4, Len(s)))
RECURSIVE Digits(_)
Digits(n) == IF n < 10 THEN <<Digit(n)>> ELSE Digits(n \div 10) \o <<Digit(n % 10)>>
DeltaText(m) ==
    LET days == m \div MinutesPerDay          \* floor, as timedelta normalises
        rest == m % MinutesPerDay
        hm == Digits(rest \div 60) \o <<":", Digit((rest % 60) \div 10),
                                        Digit((rest % 60) % 10),
                                        ":", "0", "0">>
        word == IF days = 1 \/ days = -1 THEN <<" ", "d", "a", "y", ",", " ">>
                ELSE <<" ", "d", "a", "y", "s", ",", " ">>
    IN Take4(IF days = 0 THEN hm
             ELSE IF days > 0 THEN Digits(days) \o word \o hm
             ELSE <<"-">> \o Digits(-days) \o word \o hm)

\* mutant: the event after the gap
ExtremeEventClosing(ev, k0) == PythonItem(ev, k0 + 1)

\* lines 169-170: the extreme delta and the date printed after " on "
ExtremeEvent(ev, k0) == PythonItem(ev, k0)
DeltaReport(ev, dl, extreme) ==
    [text |-> DeltaText(extreme), date |-> DateOf(ExtremeEvent(ev, IndexOf(dl, extreme)))]

\* line 171
DeltaAverage(dl) == [num |-> SumSeq(dl), den |-> Len(dl)]

(***************************************************************************)
(* The state of a run.                                                     *)
(***************************************************************************)
VARIABLES
    file,           \* the blocks of data.txt
    pos,            \* number of blocks read so far
    events, comments, deltas,
    i,              \* the index of the enumerate(events) loop, from 0
    long_nights_x, long_nights_y, event_dates, event_times,
    events_per_day, unique_dates, today,
    events_per_day_sorted, average, median, midrange, variance,
    events_per_day_normalized, average_over_period, average_over_period_normalized,
    delta_min, delta_max, delta_average,
    stdout,         \* the lines printed
    annotations,    \* the comments drawn on the plot, each with its date
    pc,             \* the statement the run is at
    exc             \* the uncaught exception that ended the run, if any

parsed == <<events, comments>>
scanned == <<i, long_nights_x, long_nights_y, event_dates, event_times>>
grouped == <<events_per_day, unique_dates, today>>
stats == <<events_per_day_sorted, average, median, midrange, variance>>
series == <<events_per_day_normalized, average_over_period, average_over_period_normalized>>
extremes == <<delta_min, delta_max, delta_average>>

vars == <<file, pos, parsed, deltas, scanned, grouped, stats, series, extremes,
          stdout, annotations, pc, exc>>

NoExc == [type |-> "none", line |-> 0]
Unset == [num |-> 0, den |-> 1]
NoReport == [text |-> <<>>, date |-> 0]

\* an uncaught exception ends the run
Raise(type, line) == pc' = "failed" /\ exc' = [type |-> type, line |-> line]
Goto(label) == pc' = label /\ exc' = exc

Init ==
    /\ file \in InputFiles
    /\ pos = 0
    /\ events = <<>> /\ comments = <<>> /\ deltas = <<>>
    /\ i = 0
    /\ long_nights_x = <<>> /\ long_nights_y = <<>>
    /\ event_dates = <<>> /\ event_times = <<>>
    /\ events_per_day = <<>> /\ unique_dates = <<>> /\ today = 0
    /\ events_per_day_sorted = <<>>
    /\ average = Unset /\ median = 0 /\ midrange = Unset /\ variance = Unset
    /\ events_per_day_normalized = <<>>
    /\ average_over_period = <<>> /\ average_over_period_normalized = <<>>
    /\ delta_min = NoReport /\ delta_max = NoReport /\ delta_average = Unset
    /\ stdout = <<>>
    /\ annotations = <<>>
    /\ pc = "read"
    /\ exc = NoExc

(***************************************************************************)
(* Lines 54-83: one iteration of the reading loop.  The tokens are         *)
(* converted in the reversed order; the first one strptime rejects raises  *)
(* ValueError, the events before it being already appended.                *)
(***************************************************************************)
ReadBlock ==
    /\ pc = "read"
    /\ pos < Len(file)
    /\ LET b == file[pos + 1]
           hours == HoursReversed(b.hours)
           ok == ValidPrefix(hours)
       IN /\ comments' = Append(comments, CommentOf(b))
          /\ events' = events \o [k \in 1..ok |-> Strptime(b.date, hours[k])]
          /\ IF ok < Len(hours) THEN Raise("ValueError", 80) ELSE Goto("read")
    /\ pos' = pos + 1
    /\ UNCHANGED <<file, deltas, scanned, grouped, stats, series, extremes,
                   stdout, annotations>>

(***************************************************************************)
(* Lines 60-61 and 87-91: end of file, the two reversals and the deltas.   *)
(***************************************************************************)
ReverseLists ==
    /\ pc = "read"
    /\ pos >= Len(file)
    /\ events' = EventsReversed(events)
    /\ comments' = CommentsReversed(comments)
    /\ deltas' = Deltas(events')
    /\ Goto("scan")
    /\ UNCHANGED <<file, pos, scanned, grouped, stats, series, extremes,
                   stdout, annotations>>

(***************************************************************************)
(* Lines 99-113: one iteration of the loop over the events.                *)
(***************************************************************************)
ScanEvent ==
    /\ pc = "scan"
    /\ i < Len(events)
    /\ LET e == PythonItem(events, i)
           prev == PythonItem(events, PreviousIndex(i))
       IN /\ event_dates' = Append(event_dates, DateOf(e))
          /\ event_times' = Append(event_times, normalized_event_time(e))
          /\ IF LongNight(e, prev)
             THEN /\ long_nights_x' = Append(long_nights_x, DateOf(e))
                  /\ long_nights_y' = Append(long_nights_y, normalized_event_time(e))
             ELSE UNCHANGED <<long_nights_x, long_nights_y>>
    /\ i' = i + 1
    /\ Goto("scan")
    /\ UNCHANGED <<file, pos, parsed, deltas, grouped, stats, series, extremes,
                   stdout, annotations>>

(***************************************************************************)
(* Lines 119-122: the per-day counts and the distinct dates.               *)
(***************************************************************************)
GroupByDay ==
    /\ pc = "scan"
    /\ i >= Len(events)
    /\ events_per_day' = CounterValues(event_dates)
    /\ unique_dates' = CounterKeys(event_dates)
    /\ Goto("trim")
    /\ UNCHANGED <<file, pos, parsed, deltas, scanned, today, stats, series, extremes,
                   stdout, annotations>>

(***************************************************************************)
(* Lines 126-128: the three pops.  list.pop() of an empty list raises      *)
(* IndexError.                                                             *)
(***************************************************************************)
TodayTrim ==
    /\ pc = "trim"
    /\ IF events_per_day = <<>>
       THEN /\ Raise("IndexError", 126)
            /\ UNCHANGED <<today, events_per_day, unique_dates, comments>>
       ELSE /\ today' = PythonItem(events_per_day, -1)
            /\ events_per_day' = PopLast(events_per_day)
            /\ IF unique_dates = <<>>
               THEN /\ Raise("IndexError", 127)
                    /\ UNCHANGED <<unique_dates, comments>>
               ELSE /\ unique_dates' = PopLast(unique_dates)
                    /\ IF comments = <<>>
                       THEN Raise("IndexError", 128) /\ UNCHANGED comments
                       ELSE comments' = PopLast(comments) /\ Goto("stats")
    /\ UNCHANGED <<file, pos, events, deltas, scanned, stats, series, extremes,
                   stdout, annotations>>

(***************************************************************************)
(* Lines 131-137: sorted counts, average, median, midrange and deviation.  *)
(* The division of line 134 raises ZeroDivisionError on an empty list.     *)
(***************************************************************************)
Statistics ==
    /\ pc = "stats"
    /\ events_per_day_sorted' = Sorted(events_per_day)
    /\ IF Len(events_per_day_sorted') = 0
       THEN /\ Raise("ZeroDivisionError", 134)
            /\ UNCHANGED <<average, median, midrange, variance>>
       ELSE /\ average' = Average(events_per_day_sorted')
            /\ median' = Median(events_per_day_sorted')
            /\ midrange' = Midrange(events_per_day_sorted')
            /\ variance' = Variance(events_per_day, average')
            /\ Goto("normalize")
    /\ UNCHANGED <<file, pos, parsed, deltas, scanned, grouped, series, extremes,
                   stdout, annotations>>

(***************************************************************************)
(* Line 141: the counts scaled so that the median is at 0.5.               *)
(***************************************************************************)
Normalize ==
    /\ pc = "normalize"
    /\ IF events_per_day # <<>> /\ median * 2 = 0
       THEN /\ Raise("ZeroDivisionError", 141)
            /\ UNCHANGED events_per_day_normalized
       ELSE /\ events_per_day_normalized' =
                   [k \in 1..Len(events_per_day) |-> NormalizedCount(events_per_day[k], median)]
            /\ Goto("moving_average")
    /\ UNCHANGED <<file, pos, parsed, deltas, scanned, grouped, stats,
                   average_over_period, average_over_period_normalized, extremes,
                   stdout, annotations>>

(***************************************************************************)
(* Lines 146-162: the average over the last AVERAGE_PERIOD days.           *)
(***************************************************************************)
MovingAverage ==
    /\ pc = "moving_average"
    /\ average_over_period' = AverageOverPeriod(events_per_day)
    /\ IF average_over_period' # <<>> /\ median * 2 = 0
       THEN /\ Raise("ZeroDivisionError", 162)
            /\ UNCHANGED average_over_period_normalized
       ELSE /\ average_over_period_normalized' =
                   [k \in 1..Len(average_over_period') |->
                       NormalizedFraction(average_over_period'[k], median)]
            /\ Goto("delta_extremes")
    /\ UNCHANGED <<file, pos, parsed, deltas, scanned, grouped, stats,
                   events_per_day_normalized, extremes, stdout, annotations>>

(***************************************************************************)
(* Lines 169-171: min(), max() of an empty list raise ValueError.          *)
(***************************************************************************)
DeltaExtremes ==
    /\ pc = "delta_extremes"
    /\ IF deltas = <<>>
       THEN Raise("ValueError", 169) /\ UNCHANGED extremes
       ELSE /\ delta_min' = DeltaReport(events, deltas, MinSeq(deltas))
            /\ delta_max' = DeltaReport(events, deltas, MaxSeq(deltas))
            /\ delta_average' = DeltaAverage(deltas)
            /\ Goto("print")
    /\ UNCHANGED <<file, pos, parsed, deltas, scanned, grouped, stats, series,
                   stdout, annotations>>

(***************************************************************************)
(* Lines 174-191: the summary, one line per field.  The "%.2f" rendering   *)
(* of a fraction is kept as the fraction.                                  *)
(***************************************************************************)
Line(key, value) == [key |-> key, value |-> value]

StatsLines ==
    << Line("Today", today),
       Line("Days recorded", Len(events_per_day)),
       Line("Events recorded", SumSeq(events_per_day)),
       Line("Min events per day", PythonItem(events_per_day_sorted, 0)),
       Line("Max events per day", PythonItem(events_per_day_sorted, -1)),
       Line("Per day average", average),
       Line("Per day median", median),
       Line("Per day midrange", midrange),
       Line("Std deviation", variance),
       Line("Min delta", delta_min),
       Line("Max delta", delta_max),
       Line("Average delta", delta_average),
       Line("Long nights", Len(long_nights_x)) >>

\* mutant: the "Today" line is printed as soon as the trim has set it
PrintStatsEarly ==
    /\ \/ pc = "stats" /\ stdout = <<>> /\ stdout' = <<Line("Today", today)>> /\ Goto("stats")
       \/ pc = "print" /\ stdout' = stdout \o Tail(StatsLines) /\ Goto("plot")
    /\ UNCHANGED <<file, pos, parsed, deltas, scanned, grouped, stats, series, extremes,
                   annotations>>

PrintStats ==
    /\ pc = "print"
    /\ stdout' = stdout \o StatsLines
    /\ Goto("plot")
    /\ UNCHANGED <<file, pos, parsed, deltas, scanned, grouped, stats, series, extremes,
                   annotations>>

(***************************************************************************)
(* Lines 194-263: the chart.  Of the drawing only the loop of lines        *)
(* 226-235 is kept: a non-empty comment is drawn at unique_dates[i], which *)
(* raises IndexError when there is no such date.                           *)
(***************************************************************************)
Annotated(cm) == {k \in 1..Len(cm) : cm[k] # ""}

Plot ==
    /\ pc = "plot"
    /\ LET texts == Annotated(comments)
           bad == {k \in texts : k > Len(unique_dates)}
           upto == IF bad = {} THEN Len(comments)
                   ELSE (CHOOSE k \in bad : \A j \in bad : k <= j) - 1
           RECURSIVE Drawn(_)
           Drawn(k) == IF k = 0 THEN <<>>
                       ELSE IF k \in texts
                            THEN Append(Drawn(k - 1),
                                        [text |-> comments[k], date |-> unique_dates[k]])
                            ELSE Drawn(k - 1)
       IN /\ annotations' = Drawn(upto)
          /\ IF bad # {} THEN Raise("IndexError", 228) ELSE Goto("done")
    /\ UNCHANGED <<file, pos, parsed, deltas, scanned, grouped, stats, series, extremes,
                   stdout>>

Next ==
    \/ ReadBlock
    \/ ReverseLists
    \/ ScanEvent
    \/ GroupByDay
    \/ TodayTrim
    \/ Statistics
    \/ Normalize
    \/ MovingAverage
    \/ DeltaExtremes
    \/ PrintStats
    \/ Plot

Spec == Init /\ [][Next]_vars

(***************************************************************************)
(* Vocabulary of the properties.                                           *)
(***************************************************************************)
\* the source line the run is at: the line of the pending statement, or the
\* line that raised
PcLine == [read |-> 54, scan |-> 99, trim |-> 126, stats |-> 131, normalize |-> 141,
           moving_average |-> 146, delta_extremes |-> 169, print |-> 174,
           plot |-> 194, done |-> 264]
Position == IF pc = "failed" THEN exc.line ELSE PcLine[pc]

ParseDone == Position > 91
TrimDone == Position > 128
StatisticsDone == Position > 137
MovingAverageDone == Position > 158
ExtremesDone == Position > 171

Nondecreasing(s) == \A k \in 1..(Len(s) - 1) : s[k] <= s[k + 1]

BlocksNewestFirst(f) == \A k \in 1..(Len(f) - 1) : f[k].date > f[k + 1].date
TokensNewestFirst(f) ==
    \A b \in 1..Len(f) : \A k \in 1..(Len(f[b].hours) - 1) :
        f[b].hours[k] >= f[b].hours[k + 1]
TokensOldestFirst(f) ==
    \A b \in 1..Len(f) : \A k \in 1..(Len(f[b].hours) - 1) :
        f[b].hours[k] <= f[b].hours[k + 1]
DistinctBlockDates(f) ==
    \A a, b \in 1..Len(f) : a # b => f[a].date # f[b].date

DistinctDates(ev) == {DateOf(ev[k]) : k \in 1..Len(ev)}

\* C1 as claimed: blocks newest first and the tokens of each block newest
\* first give, once parsed, events in non-decreasing order and deltas >= 0.
C1_Original ==
    (ParseDone /\ BlocksNewestFirst(file) /\ TokensNewestFirst(file))
        => /\ Nondecreasing(events)
           /\ \A k \in 1..Len(deltas) : deltas[k] >= 0

\* C1 (amended): when the blocks are stored newest first and the tokens of
\* each block OLDEST first (the format of the script's docstring), the events
\* held after the two reversals are in non-decreasing order, and every delta
\* events[k+1] - events[k] is >= 0.
C1_Chronological ==
    (ParseDone /\ BlocksNewestFirst(file) /\ TokensOldestFirst(file))
        => /\ Nondecreasing(events)
           /\ Len(deltas) = (IF events = <<>> THEN 0 ELSE Len(events) - 1)
           /\ \A k \in 1..Len(deltas) : deltas[k] = events[k + 1] - events[k] /\ deltas[k] >= 0

C1_Witness ==
    /\ ParseDone /\ BlocksNewestFirst(file) /\ TokensOldestFirst(file)
    /\ Len(file) = 2
    /\ Len(file[1].hours) = 2 /\ file[1].hours[1] < file[1].hours[2]
    /\ Len(events) = 3 /\ deltas[1] > 0 /\ deltas[2] > 0

\* C2: once the trim is done, the counts left plus today's count add up to
\* the number of events parsed.
C2_CountsSumToTotal ==
    TrimDone => SumSeq(events_per_day) + today = Len(events)

C2_Witness ==
    /\ pc = "stats" /\ Len(events) = 3 /\ events_per_day = <<2>> /\ today = 1

\* C3 as claimed: with fewer than 2 distinct dates the run goes no further
\* than the trim, which is the statement that fails; no statistic is
\* evaluated on the emptied list.
C3_FailsAtTrim ==
    (ParseDone /\ Cardinality(DistinctDates(events)) < 2)
        => /\ Position <= 126
           /\ pc = "failed" => exc.line = 126

\* before the trim there are as many comments as distinct dates, and after
\* it comments[i] is the comment of a block dated unique_dates[i]
CommentsAligned ==
    /\ pc = "trim" => Len(comments) = Len(unique_dates)
    /\ TrimDone => \A k \in 1..Len(comments) :
                      /\ k <= Len(unique_dates)
                      /\ \E b \in 1..Len(file) :
                            file[b].date = unique_dates[k] /\ CommentOf(file[b]) = comments[k]

\* C4 as claimed: the alignment holds for every file the parser accepts,
\* two blocks of the same date included.
C4_Original == CommentsAligned

\* C4 (amended): for every file whose day-blocks carry pairwise distinct
\* dates, in any file order, there are as many comments as distinct dates
\* before the trim, and after it comments[i] is the comment of the block
\* dated unique_dates[i].
C4_AlignedWhenDatesDistinct == DistinctBlockDates(file) => CommentsAligned

C4_Witness ==
    /\ pc = "done"
    /\ Len(file) = 3 /\ file[1].date < file[2].date
    /\ Len(annotations) = 2 /\ annotations[1].text # annotations[2].text

\* the extreme of a list of deltas and the first place it is found at
IsMinAt(dl, k) == (\A j \in 1..Len(dl) : dl[j] >= dl[k]) /\ (\A j \in 1..(k - 1) : dl[j] > dl[k])
IsMaxAt(dl, k) == (\A j \in 1..Len(dl) : dl[j] <= dl[k]) /\ (\A j \in 1..(k - 1) : dl[j] < dl[k])

\* C5 as claimed: the date reported with the extreme delta
\* deltas[k] = events[k+1] - events[k] is the date of events[k+1].
C5_Original ==
    ExtremesDone =>
        /\ \E k \in 1..Len(deltas) : IsMinAt(deltas, k) /\ delta_min.date = DateOf(events[k + 1])
        /\ \E k \in 1..Len(deltas) : IsMaxAt(deltas, k) /\ delta_max.date = DateOf(events[k + 1])

\* C5 (amended): the date reported with the extreme delta
\* deltas[k] = events[k+1] - events[k], k the first index of the extreme, is
\* the date of events[k], the event that opened the gap, also when the gap
\* crosses midnight.
C5_DateOfOpeningEvent ==
    ExtremesDone =>
        /\ \E k \in 1..Len(deltas) : IsMinAt(deltas, k) /\ delta_min.date = DateOf(events[k])
        /\ \E k \in 1..Len(deltas) : IsMaxAt(deltas, k) /\ delta_max.date = DateOf(events[k])

C5_Witness ==
    /\ pc = "print"
    /\ \E k \in 1..Len(deltas) :
          /\ IsMaxAt(deltas, k)
          /\ DateOf(events[k]) # DateOf(events[k + 1])
          /\ delta_max.date = DateOf(events[k])

\* C6: the median is the value of rank floor(n/2) (from 0) among the n >= 1
\* trimmed counts, for odd and even n: [1,3,3,5,9] gives 3, [2,4] gives 4.
C6_MedianRank ==
    StatisticsDone =>
        LET n == Len(events_per_day)
            below == Cardinality({k \in 1..n : events_per_day[k] < median})
            upto == Cardinality({k \in 1..n : events_per_day[k] <= median})
        IN /\ n >= 1
           /\ below <= n \div 2 /\ n \div 2 < upto
           /\ Sorted(events_per_day) = <<1, 3, 3, 5, 9>> => median = 3
           /\ Sorted(events_per_day) = <<2, 4>> => median = 4

C6_Witness ==
    /\ pc = "normalize" /\ events_per_day = <<4, 2>> /\ median = 4

\* C7: moving_average[i] is the sum of counts[max(0, i+1-W) .. i] over the
\* number of values in that window; the first is counts[0] / 1, from index
\* W-1 on the window holds W values, and there is one value per day.
C7_MovingAverage ==
    MovingAverageDone =>
        /\ Len(average_over_period) = Len(events_per_day)
        /\ \A k \in 1..Len(events_per_day) :
              LET window == SubSeq(events_per_day, Max2(1, k + 1 - AVERAGE_PERIOD), k)
              IN /\ average_over_period[k].num = SumSeq(window)
                 /\ average_over_period[k].den = Len(window)
                 /\ k = 1 => average_over_period[k] = [num |-> events_per_day[1], den |-> 1]
                 /\ k >= AVERAGE_PERIOD => Len(window) = AVERAGE_PERIOD

C7_Witness ==
    /\ pc = "delta_extremes"
    /\ Len(events_per_day) > AVERAGE_PERIOD
    /\ events_per_day[1] # events_per_day[AVERAGE_PERIOD + 1]
    /\ average_over_period[AVERAGE_PERIOD + 1].den = AVERAGE_PERIOD

C9_NoPartialOutput ==
    /\ stdout # <<>> => Position >= 194 /\ Len(stdout) = 13
    /\ (pc = "failed" /\ exc.line < 174) => stdout = <<>>

C9_Witness ==
    /\ pc = "failed" /\ exc.type = "ZeroDivisionError" /\ stdout = <<>> /\ Len(events) >= 2

\* C10 as claimed: the first event is never flagged as a long-quiet-interval
\* marker.
C10_FirstNeverFlagged ==
    (pc = "scan" /\ i = 1) => long_nights_x = <<>>

====
